---- MODULE Spec2Model ----
(***************************************************************************)
(* Model of the wordfreq exporters: export_wordfreq.py (the flat exporter) *)
(* and export_wordfreq_tiered.py (the tiered exporter).                    *)
(*                                                                         *)
(* Conventions of the model                                                *)
(*  - A raw frequency is an integer number of units of 1e-8, so that every *)
(*    threshold literal of the code (1e-7 .. 1e-2) is an integer; Lit(m,e) *)
(*    is the literal m e<e>.  Values on this grid and the thresholds are   *)
(*    far more than one ulp apart, so the comparisons on doubles and the   *)
(*    comparisons on the integers agree.                                   *)
(*  - A value of the detailed scale (1.0, 1.5, .. 10.0) is written in      *)
(*    tenths: 10, 15, .. 100.                                              *)
(*  - A word is a natural number; the ranked list of a language is a       *)
(*    sequence of words.                                                   *)
(*  - A Python dict is the sequence of <<key, value>> insertions made      *)
(*    into it; DictKeys, DictGet and DictLen read it as Python does (the   *)
(*    last insertion of a key wins).                                       *)
(***************************************************************************)
EXTENDS Integers, Sequences, FiniteSets, TLC

VARIABLES
    exporter,     \* which script runs: "flat" or "tiered"
    source,       \* the corpus library's data, per language code
    pc,           \* position in main() / the export function
    lang,         \* index into Languages of the loop of main()
    total_words,  \* main(): running total
    word_counts,  \* main(): the word_count returned for each language so far
    size_idx,     \* export: index into test_sizes of the probe loop
    max_words,    \* export: max_words
    requests,     \* export: the top_n_list requests of the probe loop of this call
    words,        \* export: words / all_words
    freq_data,    \* flat export: freq_data
    tiers,        \* tiered export: tiers
    tier_idx,     \* tiered export: position in tiers.items()
    tier_info,    \* tiered export: tier_info
    written,      \* the paths written by the most recent call, in order
    dirs,         \* filesystem: the directories that exist
    files,        \* filesystem: path -> content
    errors,       \* console: the error lines printed by the except handlers
    call          \* a single application of a scale function: input and result

vars == <<exporter, source, pc, lang, total_words, word_counts, size_idx, max_words,
          requests, words, freq_data, tiers, tier_idx, tier_info, written, dirs,
          files, errors, call>>

----------------------------------------------------------------------------
(* Bounds of the model *)

\* the small corpora hold 0..MaxWords words
MaxWords == 5

\* the rank-scale function is applied to totals 1..MaxTotal
MaxTotal == 64

----------------------------------------------------------------------------
(* Numbers *)

Min(a, b) == IF a < b THEN a ELSE b

\* the float literal m e<e> (e in -8..0) in units of 1e-8
Lit(m, e) == m * 10^(8 + e)

\* the list [F(x) for x in s]
MapSeq(s, F(_)) == SubSeq([i \in DOMAIN s |-> F(s[i])], 1, Len(s))

RECURSIVE SumSeq(_)
SumSeq(s) == IF s = <<>> THEN 0 ELSE Head(s) + SumSeq(Tail(s))

----------------------------------------------------------------------------
(* Python dicts *)

DictKeys(d) == {d[i][1] : i \in DOMAIN d}

DictLen(d) == Cardinality(DictKeys(d))

\* d[k], for k a key of d
DictGet(d, k) ==
    LET last == CHOOSE i \in DOMAIN d :
                    /\ d[i][1] = k
                    /\ \A j \in DOMAIN d : d[j][1] = k => j <= i
    IN  d[last][2]

----------------------------------------------------------------------------
(* The scale functions *)

\* convert_frequency_to_scale with <= for < (a variant, not the code)
FlatScaleInclusive(freq) ==
    IF freq = 0 THEN 1
    ELSE IF freq <= Lit(1, -6) THEN 1
    ELSE IF freq <= Lit(1, -5) THEN 2
    ELSE IF freq <= Lit(1, -4) THEN 3
    ELSE IF freq <= Lit(1, -3) THEN 4
    ELSE 5

\* export_wordfreq.py: convert_frequency_to_scale
convert_frequency_to_scale(freq) ==
    IF freq = 0 THEN 1
    ELSE IF freq < Lit(1, -6) THEN 1
    ELSE IF freq < Lit(1, -5) THEN 2
    ELSE IF freq < Lit(1, -4) THEN 3
    ELSE IF freq < Lit(1, -3) THEN 4
    ELSE 5

\* convert_frequency_to_detailed_scale with <= for < (a variant, not the code)
DetailedScaleInclusive(freq) ==
    IF freq = 0 THEN 10
    ELSE IF freq <= Lit(1, -7) THEN 10
    ELSE IF freq <= Lit(5, -7) THEN 15
    ELSE IF freq <= Lit(1, -6) THEN 20
    ELSE IF freq <= Lit(5, -6) THEN 25
    ELSE IF freq <= Lit(1, -5) THEN 30
    ELSE IF freq <= Lit(5, -5) THEN 40
    ELSE IF freq <= Lit(1, -4) THEN 50
    ELSE IF freq <= Lit(5, -4) THEN 60
    ELSE IF freq <= Lit(1, -3) THEN 70
    ELSE IF freq <= Lit(5, -3) THEN 80
    ELSE IF freq <= Lit(1, -2) THEN 90
    ELSE 100

\* export_wordfreq_tiered.py: convert_frequency_to_detailed_scale (in tenths)
convert_frequency_to_detailed_scale(freq) ==
    IF freq = 0 THEN 10
    ELSE IF freq < Lit(1, -7) THEN 10
    ELSE IF freq < Lit(5, -7) THEN 15
    ELSE IF freq < Lit(1, -6) THEN 20
    ELSE IF freq < Lit(5, -6) THEN 25
    ELSE IF freq < Lit(1, -5) THEN 30
    ELSE IF freq < Lit(5, -5) THEN 40
    ELSE IF freq < Lit(1, -4) THEN 50
    ELSE IF freq < Lit(5, -4) THEN 60
    ELSE IF freq < Lit(1, -3) THEN 70
    ELSE IF freq < Lit(5, -3) THEN 80
    ELSE IF freq < Lit(1, -2) THEN 90
    ELSE 100

\* convert_to_user_scale_by_rank with percentile = rank / total_words, the
\* rank not inverted (a variant, not the code)
RankScaleNotInverted(rank, total) ==
    IF 32 * rank >= 31 * total THEN 5
    ELSE IF 32 * rank >= 29 * total THEN 4
    ELSE IF 32 * rank >= 25 * total THEN 3
    ELSE IF 32 * rank >= 17 * total THEN 2
    ELSE 1

\* export_wordfreq_tiered.py: convert_to_user_scale_by_rank.
\* percentile = (total_words - rank + 1) / total_words is compared with
\* 0.96875 = 31/32, 0.90625 = 29/32, 0.78125 = 25/32 and 0.53125 = 17/32, all
\* exact doubles.  The quotient is correctly rounded, and a quotient a/T below
\* k/32 is below it by at least 1/(32T), more than an ulp for every T below
\* 2^47: the comparison on doubles is the comparison of 32a with kT.
convert_to_user_scale_by_rank(rank, total) ==
    LET a == total - rank + 1
    IN  IF 32 * a >= 31 * total THEN 5
        ELSE IF 32 * a >= 29 * total THEN 4
        ELSE IF 32 * a >= 25 * total THEN 3
        ELSE IF 32 * a >= 17 * total THEN 2
        ELSE 1

----------------------------------------------------------------------------
(* Program constants *)

\* main(): languages, in the dict's insertion order
Languages ==
    << [name |-> "English",    code |-> "en"],
       [name |-> "Spanish",    code |-> "es"],
       [name |-> "Portuguese", code |-> "pt"] >>

Codes == {Languages[i].code : i \in DOMAIN Languages}

\* language_name.lower()
Lower(name) ==
    CASE name = "English"    -> "english"
      [] name = "Spanish"    -> "spanish"
      [] name = "Portuguese" -> "portuguese"

\* test_sizes of the probe loop
TestSizes == <<100000, 200000, 300000, 400000, 500000>>

\* max_words = 50000  # Fallback minimum
FallbackWords == 50000

\* tier_boundaries['core'], tier_boundaries['extended']
CoreBoundary == 15000
ExtendedBoundary == 65000

\* tiers with 'extended' inserted first (a variant, not the code)
TierNamesExtendedFirst == <<"extended", "core", "complete">>

\* tiers, in the dict's insertion order
TierNames == <<"core", "extended", "complete">>

FlatDir == "public"
TierDir == "public/wordfreq-tiers"

FlatFile(name) == "public/wordfreq-" \o Lower(name) \o ".json"
TierFile(name, tier_name) == "public/wordfreq-tiers/" \o Lower(name) \o "-" \o tier_name \o ".json"
MetadataFile(name) == "public/wordfreq-tiers/" \o Lower(name) \o "-metadata.json"

----------------------------------------------------------------------------
(* The corpus library (wordfreq), as the exporters use it *)

\* The raw frequencies of the five most frequent words of every language;
\* every later word has frequency 0.
FreqTable == << Lit(2, -2), Lit(3, -3), Lit(5, -5), Lit(5, -7), 0 >>

\* A corpus is [n, dup, fails]: n words; word i is at rank i, except that a
\* corpus with dup repeats word 1 at its last rank; fails says whether the
\* library and the filesystem may fail while this language is exported.
\* The word at rank i of corpus c:
WordAt(c, i) == IF c.dup /\ i = c.n THEN 1 ELSE i

\* the ranked list of corpus c
RankedList(c) == [i \in 1..c.n |-> WordAt(c, i)]

\* top_n_list(language_code, size): the first size words of the ranked list; a
\* request for more words than the corpus holds returns the shorter list
top_n_list(code, size) ==
    LET c == source[code]
    IN  SubSeq(RankedList(c), 1, Min(size, c.n))

\* word_frequency(word, language_code)
word_frequency(word, code) ==
    IF word \in DOMAIN FreqTable THEN FreqTable[word] ELSE 0

----------------------------------------------------------------------------
(* export_tiered_language_data: the pure parts *)

tier_boundaries(maxw) ==
    [core |-> CoreBoundary, extended |-> ExtendedBoundary, complete |-> maxw]

\* TierOf with <= for < (a variant, not the code)
TierOfInclusive(i, maxw) ==
    IF i <= tier_boundaries(maxw).core THEN "core"
    ELSE IF i <= tier_boundaries(maxw).extended THEN "extended"
    ELSE "complete"

\* the tier of the word at 0-based position i
TierOf(i, maxw) ==
    IF i < tier_boundaries(maxw).core THEN "core"
    ELSE IF i < tier_boundaries(maxw).extended THEN "extended"
    ELSE "complete"

\* word_entry of word, at rank r of a list of total words
word_entry(word, r, total, code) ==
    [ word           |-> word,
      frequency      |-> convert_frequency_to_detailed_scale(word_frequency(word, code)),
      rank           |-> r,
      user_frequency |-> convert_to_user_scale_by_rank(r, total) ]

\* the loop over enumerate(all_words): every entry is appended to its tier
BuildTiers(all_words, code, maxw) ==
    LET total == Len(all_words)
        entries == [r \in 1..total |-> word_entry(all_words[r], r, total, code)]
        InTier(t) == LET Test(e) == TierOf(e.rank - 1, maxw) = t
                     IN  SelectSeq(entries, Test)
    IN  [core |-> InTier("core"), extended |-> InTier("extended"),
         complete |-> InTier("complete")]

\* LookupValue with rank and user_frequency exchanged (a variant, not the code)
LookupValueSwapped(entry) ==
    [ frequency      |-> entry.frequency,
      rank           |-> entry.user_frequency,
      user_frequency |-> entry.rank ]

\* the value of 'lookup' for one entry
LookupValue(entry) ==
    [ frequency      |-> entry.frequency,
      rank           |-> entry.rank,
      user_frequency |-> entry.user_frequency ]

\* tier_export, for a non-empty tier
TierExport(tier_name, tier_data) ==
    [ words     |-> tier_data,
      lookup    |-> LET Item(entry) == <<entry.word, LookupValue(entry)>>
                    IN  MapSeq(tier_data, Item),
      tier_info |-> [ name       |-> tier_name,
                      word_count |-> Len(tier_data),
                      rank_range |-> <<tier_data[1].rank,
                                       tier_data[Len(tier_data)].rank>> ] ]

\* metadata (the sizes in megabytes are not modelled)
Metadata(language, all_words, maxw, info) ==
    [ language        |-> language.name,
      language_code   |-> language.code,
      total_words     |-> Len(all_words),
      tiers           |-> info,
      tier_boundaries |-> tier_boundaries(maxw) ]

\* export_language_frequencies: freq_data after the loop over enumerate(words)
BuildFreqData(ws, code) ==
    LET Item(word) == <<word, convert_frequency_to_scale(word_frequency(word, code))>>
    IN  MapSeq(ws, Item)

----------------------------------------------------------------------------
(* The probe loop *)

\* if len(test_words) < size: ... break
ProbeStops(len, size) == len < size

\* ProbeMax without the assignment in the branch that breaks (a variant, not
\* the code)
ProbeMaxFullOnly(prev, len, size) == IF len < size THEN prev ELSE len

\* max_words after a request that returned len words (both branches assign it)
ProbeMax(prev, len, size) == len

----------------------------------------------------------------------------
(* Control *)

EmptyTiers == [core |-> <<>>, extended |-> <<>>, complete |-> <<>>]

NoFiles == [p \in {} |-> 0]

CurLang == Languages[lang]

\* whether an operation of the environment may fail now
MayFail == source[CurLang.code].fails

\* handlers that catch one kind of exception only (variants, not the code)
CaughtFilesystemOnly(kind) == kind = "filesystem"
CaughtSourceOnly(kind) == kind = "source"

\* except Exception as e: both a failure of the corpus library and an OSError
\* of the filesystem are Exceptions
Caught(kind) == kind \in {"source", "filesystem"}

\* the frame of the export call is dropped
DropFrame ==
    /\ size_idx' = 0
    /\ max_words' = 0
    /\ requests' = <<>>
    /\ words' = <<>>
    /\ freq_data' = <<>>
    /\ tiers' = EmptyTiers
    /\ tier_idx' = 0
    /\ tier_info' = <<>>

\* the call returns count to main(), which adds it to total_words and goes on
\* with the next language
BackToMain(count) ==
    /\ word_counts' = Append(word_counts, [language |-> CurLang.name, count |-> count])
    /\ total_words' = total_words + count
    /\ lang' = lang + 1
    /\ pc' = "main"
    /\ DropFrame

Return(count) ==
    /\ BackToMain(count)
    /\ UNCHANGED errors

\* an exception of the given kind inside the try block of the export function
Raise(kind) ==
    IF Caught(kind)
    THEN /\ errors' = Append(errors, [language |-> CurLang.name, kind |-> kind])
         /\ BackToMain(0)
    ELSE /\ pc' = "crashed"
         /\ UNCHANGED <<errors, word_counts, total_words, lang, size_idx, max_words,
                        requests, words, freq_data, tiers, tier_idx, tier_info>>

\* main(): word_count = export_...(lang_name, lang_code)
CallExport ==
    /\ pc = "main"
    /\ lang <= Len(Languages)
    /\ pc' = "probe"
    /\ size_idx' = 1
    /\ max_words' = FallbackWords
    /\ requests' = <<>>
    /\ written' = <<>>
    /\ UNCHANGED <<exporter, source, lang, total_words, word_counts, words, freq_data,
                   tiers, tier_idx, tier_info, dirs, files, errors, call>>

\* one iteration of "for size in test_sizes"
ProbeRequest ==
    /\ pc = "probe"
    /\ LET size == TestSizes[size_idx]
       IN  \/ \* top_n_list raises: except: break
              /\ MayFail
              /\ requests' = Append(requests, [size |-> size, raised |-> TRUE, returned |-> 0])
              /\ pc' = "fetch"
              /\ UNCHANGED <<size_idx, max_words>>
           \/ LET test_words == top_n_list(CurLang.code, size)
              IN  /\ requests' = Append(requests, [size |-> size, raised |-> FALSE,
                                                   returned |-> Len(test_words)])
                  /\ max_words' = ProbeMax(max_words, Len(test_words), size)
                  /\ IF ProbeStops(Len(test_words), size) \/ size_idx = Len(TestSizes)
                     THEN pc' = "fetch" /\ UNCHANGED size_idx
                     ELSE pc' = "probe" /\ size_idx' = size_idx + 1
    /\ UNCHANGED <<exporter, source, lang, total_words, word_counts, words, freq_data,
                   tiers, tier_idx, tier_info, written, dirs, files, errors, call>>

\* words = top_n_list(language_code, max_words)
FetchWords ==
    /\ pc = "fetch"
    /\ \/ /\ MayFail
          /\ Raise("source")
       \/ /\ words' = top_n_list(CurLang.code, max_words)
          /\ pc' = "process"
          /\ UNCHANGED <<lang, total_words, word_counts, size_idx, max_words, requests,
                         freq_data, tiers, tier_idx, tier_info, errors>>
    /\ UNCHANGED <<exporter, source, written, dirs, files, call>>

\* the loop over enumerate(words): word_frequency may raise at any word
ProcessWords ==
    /\ pc = "process"
    /\ \/ /\ words # <<>>
          /\ MayFail
          /\ Raise("source")
       \/ /\ exporter = "flat"
          /\ freq_data' = BuildFreqData(words, CurLang.code)
          /\ pc' = "mkdir"
          /\ UNCHANGED <<lang, total_words, word_counts, size_idx, max_words, requests,
                         words, tiers, tier_idx, tier_info, errors>>
       \/ /\ exporter = "tiered"
          /\ tiers' = BuildTiers(words, CurLang.code, max_words)
          /\ pc' = "mkdir"
          /\ UNCHANGED <<lang, total_words, word_counts, size_idx, max_words, requests,
                         words, freq_data, tier_idx, tier_info, errors>>
    /\ UNCHANGED <<exporter, source, written, dirs, files, call>>

\* os.makedirs(..., exist_ok=True)
MakeDirs ==
    /\ pc = "mkdir"
    /\ \/ /\ MayFail
          /\ Raise("filesystem")
          /\ UNCHANGED dirs
       \/ /\ dirs' = dirs \cup {IF exporter = "flat" THEN FlatDir ELSE TierDir}
          /\ pc' = IF exporter = "flat" THEN "write_flat" ELSE "write_tier"
          /\ tier_idx' = IF exporter = "flat" THEN 0 ELSE 1
          /\ UNCHANGED <<lang, total_words, word_counts, size_idx, max_words, requests,
                         words, freq_data, tiers, tier_info, errors>>
    /\ UNCHANGED <<exporter, source, written, files, call>>

\* flat exporter: write the file, read its size, return len(freq_data)
WriteFlat ==
    /\ pc = "write_flat"
    /\ LET filename == FlatFile(CurLang.name)
       IN  \/ \* open or json.dump fails
              /\ MayFail
              /\ Raise("filesystem")
              /\ UNCHANGED <<files, written>>
           \/ \* os.path.getsize fails
              /\ MayFail
              /\ files' = (filename :> freq_data) @@ files
              /\ written' = Append(written, filename)
              /\ Raise("filesystem")
           \/ /\ files' = (filename :> freq_data) @@ files
              /\ written' = Append(written, filename)
              /\ Return(DictLen(freq_data))
    /\ UNCHANGED <<exporter, source, dirs, call>>

\* tiered exporter: one iteration of "for tier_name, tier_data in tiers.items()"
WriteTier ==
    /\ pc = "write_tier"
    /\ LET tier_name == TierNames[tier_idx]
           tier_data == tiers[tier_name]
           filename == TierFile(CurLang.name, tier_name)
           tier_export == TierExport(tier_name, tier_data)
           Advance == /\ IF tier_idx = Len(TierNames)
                         THEN pc' = "write_meta" /\ UNCHANGED tier_idx
                         ELSE pc' = "write_tier" /\ tier_idx' = tier_idx + 1
                      /\ UNCHANGED <<lang, total_words, word_counts, size_idx, max_words,
                                     requests, words, freq_data, tiers, errors>>
       IN  \/ \* if not tier_data: continue
              /\ tier_data = <<>>
              /\ Advance
              /\ UNCHANGED <<files, written, tier_info>>
           \/ \* open or json.dump fails
              /\ tier_data # <<>>
              /\ MayFail
              /\ Raise("filesystem")
              /\ UNCHANGED <<files, written>>
           \/ \* os.path.getsize fails
              /\ tier_data # <<>>
              /\ MayFail
              /\ files' = (filename :> tier_export) @@ files
              /\ written' = Append(written, filename)
              /\ Raise("filesystem")
           \/ /\ tier_data # <<>>
              /\ files' = (filename :> tier_export) @@ files
              /\ written' = Append(written, filename)
              /\ tier_info' = Append(tier_info,
                     <<tier_name, [ words      |-> Len(tier_data),
                                    filename   |-> filename,
                                    rank_range |-> tier_export.tier_info.rank_range ]>>)
              /\ Advance
    /\ UNCHANGED <<exporter, source, dirs, call>>

\* tiered exporter: write the metadata file and return len(all_words)
WriteMetadata ==
    /\ pc = "write_meta"
    /\ LET metadata_file == MetadataFile(CurLang.name)
       IN  \/ /\ MayFail
              /\ Raise("filesystem")
              /\ UNCHANGED <<files, written>>
           \/ /\ files' = (metadata_file :> Metadata(CurLang, words, max_words, tier_info))
                              @@ files
              /\ written' = Append(written, metadata_file)
              /\ Return(Len(words))
    /\ UNCHANGED <<exporter, source, dirs, call>>

\* main(), after the loop: the summary reads the output directory outside any
\* try block
Summary ==
    /\ pc = "main"
    /\ lang > Len(Languages)
    /\ \/ pc' = "done"
       \/ /\ IF exporter = "flat"
             THEN \E i \in DOMAIN Languages : FlatFile(Languages[i].name) \in DOMAIN files
             ELSE TierDir \in dirs
          /\ pc' = "crashed"
    /\ UNCHANGED <<exporter, source, lang, total_words, word_counts, size_idx, max_words,
                   requests, words, freq_data, tiers, tier_idx, tier_info, written, dirs,
                   files, errors, call>>

Next ==
    \/ CallExport
    \/ ProbeRequest
    \/ FetchWords
    \/ ProcessWords
    \/ MakeDirs
    \/ WriteFlat
    \/ WriteTier
    \/ WriteMetadata
    \/ Summary

----------------------------------------------------------------------------------------------------------------------------------------
(* Single applications of the scale functions *)

\* convert_frequency_to_scale on both arguments
ApplyFlat ==
    /\ exporter = "flat"
    /\ call.kind = "freq"
    /\ call.fn = "none"
    /\ call' = [call EXCEPT !.fn = "convert_frequency_to_scale",
                            !.ret = [k \in DOMAIN call.args |->
                                        convert_frequency_to_scale(call.args[k])]]
    /\ UNCHANGED <<exporter, source, pc, lang, total_words, word_counts, size_idx,
                   max_words, requests, words, freq_data, tiers, tier_idx, tier_info,
                   written, dirs, files, errors>>

\* convert_frequency_to_detailed_scale on both arguments
ApplyDetailed ==
    /\ exporter = "tiered"
    /\ call.kind = "freq"
    /\ call.fn = "none"
    /\ call' = [call EXCEPT !.fn = "convert_frequency_to_detailed_scale",
                            !.ret = [k \in DOMAIN call.args |->
                                        convert_frequency_to_detailed_scale(call.args[k])]]
    /\ UNCHANGED <<exporter, source, pc, lang, total_words, word_counts, size_idx,
                   max_words, requests, words, freq_data, tiers, tier_idx, tier_info,
                   written, dirs, files, errors>>

\* convert_to_user_scale_by_rank on the ranks args[1] and args[2] of args[3] words
ApplyRank ==
    /\ exporter = "tiered"
    /\ call.kind = "rank"
    /\ call.fn = "none"
    /\ call' = [call EXCEPT !.fn = "convert_to_user_scale_by_rank",
                            !.ret = << convert_to_user_scale_by_rank(call.args[1], call.args[3]),
                                       convert_to_user_scale_by_rank(call.args[2], call.args[3]) >>]
    /\ UNCHANGED <<exporter, source, pc, lang, total_words, word_counts, size_idx,
                   max_words, requests, words, freq_data, tiers, tier_idx, tier_info,
                   written, dirs, files, errors>>

\* convert_to_user_scale_by_rank on every rank of a list of args[1] words, as
\* the loop of export_tiered_language_data applies it
ApplyRankAll ==
    /\ exporter = "tiered"
    /\ call.kind = "total"
    /\ call.fn = "none"
    /\ call' = [call EXCEPT !.fn = "convert_to_user_scale_by_rank",
                            !.ret = [r \in 1..call.args[1] |->
                                        convert_to_user_scale_by_rank(r, call.args[1])]]
    /\ UNCHANGED <<exporter, source, pc, lang, total_words, word_counts, size_idx,
                   max_words, requests, words, freq_data, tiers, tier_idx, tier_info,
                   written, dirs, files, errors>>

NextScale ==
    \/ ApplyFlat
    \/ ApplyDetailed
    \/ ApplyRank
    \/ ApplyRankAll

----------------------------------------------------------------------------
(* Initial states *)

NoCall == [kind |-> "none", fn |-> "none", args |-> <<>>, ret |-> <<>>]

\* the state of main() before its loop, for a given corpus
InitMain(src) ==
    /\ exporter \in {"flat", "tiered"}
    /\ source = src
    /\ pc = "main"
    /\ lang = 1
    /\ total_words = 0
    /\ word_counts = <<>>
    /\ size_idx = 0
    /\ max_words = 0
    /\ requests = <<>>
    /\ words = <<>>
    /\ freq_data = <<>>
    /\ tiers = EmptyTiers
    /\ tier_idx = 0
    /\ tier_info = <<>>
    /\ written = <<>>
    /\ dirs = {}
    /\ files = NoFiles
    /\ errors = <<>>

\* corpora of at most MaxWords words; one of two words or more may repeat a word
SmallCorpora ==
    {[n |-> k, dup |-> d, fails |-> TRUE] : k \in 0..MaxWords, d \in BOOLEAN}
        \ {[n |-> k, dup |-> TRUE, fails |-> TRUE] : k \in 0..1}

Init ==
    /\ \E src \in [Codes -> SmallCorpora] : InitMain(src)
    /\ call = NoCall

Spec == Init /\ [][Next]_vars

EmptyCorpus == [n |-> 0, dup |-> FALSE, fails |-> FALSE]

\* one language holds size different words, the other two none; nothing fails
\* for the empty ones
OneCorpus(code, size, fails) ==
    [c \in Codes |-> IF c = code THEN [n |-> size, dup |-> FALSE, fails |-> fails]
                     ELSE EmptyCorpus]

\* Lists around the tier boundaries: English holds a size around
\* tier_boundaries['core'], or Portuguese one around
\* tier_boundaries['extended']; the environment may fail
InitTier ==
    /\ \/ \E d \in -1..1 : InitMain(OneCorpus("en", CoreBoundary + d, TRUE))
       \/ \E d \in -1..1 : InitMain(OneCorpus("pt", ExtendedBoundary + d, TRUE))
    /\ call = NoCall

SpecTier == InitTier /\ [][Next]_vars

\* Sizes at, between and beyond the sizes the probe loop requests
ProbeSizes ==
    {TestSizes[1], TestSizes[1] + 1, TestSizes[3], TestSizes[5], TestSizes[5] + 1}

\* Portuguese holds one of ProbeSizes and the environment never fails, or a
\* few words and the environment may fail
InitProbe ==
    /\ \/ \E size \in ProbeSizes : InitMain(OneCorpus("pt", size, FALSE))
       \/ \E size \in 0..MaxWords : InitMain(OneCorpus("pt", size, TRUE))
    /\ call = NoCall

SpecProbe == InitProbe /\ [][Next]_vars

\* The thresholds of the two frequency scales
Thresholds ==
    {Lit(m, e) : m \in {1, 5}, e \in -7..-3} \cup {Lit(1, -2)}

\* Raw frequencies: 0, the least positive one, every threshold and its two
\* neighbours, and 1.0
FreqSamples ==
    {0, 1, Lit(1, 0)} \cup {t + d : t \in Thresholds, d \in -1..1}

ScaleCall(kind, args) == [kind |-> kind, fn |-> "none", args |-> args, ret |-> <<>>]

\* two frequencies f1 <= f2; or two ranks r1 <= r2 of a list of t words; or a
\* number t of words
InitScale ==
    /\ InitMain([c \in Codes |-> EmptyCorpus])
    /\ \/ \E f2 \in FreqSamples : \E f1 \in {f \in FreqSamples : f <= f2} :
              call = ScaleCall("freq", <<f1, f2>>)
       \/ /\ exporter = "tiered"
          /\ \E t \in 1..MaxTotal : \E r2 \in 1..t : \E r1 \in 1..r2 :
                 call = ScaleCall("rank", <<r1, r2, t>>)
       \/ /\ exporter = "tiered"
          /\ \E t \in 1..MaxTotal :
                 call = ScaleCall("total", <<t>>)

SpecScale == InitScale /\ [][NextScale]_vars

----------------------------------------------------------------------------
(* Properties *)

Range(s) == {s[i] : i \in DOMAIN s}

InCall == pc \in {"probe", "fetch", "process", "mkdir", "write_flat", "write_tier", "write_meta"}

\* the tiers are built and the frame of the call still holds them
TiersBuilt == exporter = "tiered" /\ pc \in {"mkdir", "write_tier", "write_meta"}

\* tier holds exactly the ranks first+1 .. last, in ascending order
HoldsRanks(tier, first, last) ==
    /\ Len(tier) = (IF last > first THEN last - first ELSE 0)
    /\ \A i \in DOMAIN tier : tier[i].rank = first + i

\* C1: for a fetched list of T words, core holds exactly the ranks
\* 1..min(15000,T), extended exactly 15001..min(65000,T) and complete exactly
\* 65001..T, each in ascending order; every rank is in exactly one tier; the
\* sizes of the tiers sum to T, the total_words of the metadata file.
C1_TiersPartitionRanks ==
    /\ TiersBuilt =>
         LET T == Len(words)
         IN  /\ HoldsRanks(tiers.core, 0, Min(15000, T))
             /\ HoldsRanks(tiers.extended, 15000, Min(65000, T))
             /\ HoldsRanks(tiers.complete, 65000, T)
             /\ Len(tiers.core) + Len(tiers.extended) + Len(tiers.complete) = T
    /\ pc = "write_meta" =>
         LET Words(item) == item[2].words
         IN  SumSeq(MapSeq(tier_info, Words)) = Len(words)
    /\ \A k \in DOMAIN Languages :
         MetadataFile(Languages[k].name) \in DOMAIN files =>
             LET meta == files[MetadataFile(Languages[k].name)]
                 Words(item) == item[2].words
             IN  meta.total_words = SumSeq(MapSeq(meta.tiers, Words))

\* a list of 65001 words is in its tiers: all three tiers are non-empty
C1_Witness ==
    /\ TiersBuilt
    /\ Len(words) = 65001
    /\ Len(tiers.core) = 15000 /\ Len(tiers.extended) = 50000 /\ Len(tiers.complete) = 1

\* C2: against a corpus of N <= 500000 words that never errors, the probe loop
\* requests the sizes 100000, 200000, .. in that order, makes at most 5
\* requests, none after the first that returned fewer words than requested,
\* and ends with max_words = N.
C2_ProbeDetectsSize ==
    InCall =>
        LET N == source[CurLang.code].n
            Short(k) == ~requests[k].raised /\ requests[k].returned < requests[k].size
            NeverErrs == \A k \in DOMAIN requests : ~requests[k].raised
        IN  /\ Len(requests) <= 5
            /\ \A k \in DOMAIN requests : requests[k].size = 100000 * k
            /\ \A k \in DOMAIN requests :
                   ~requests[k].raised => requests[k].returned = Min(requests[k].size, N)
            /\ \A k \in DOMAIN requests : Short(k) => k = Len(requests)
            /\ pc = "probe" => Len(requests) < 5 /\ size_idx = Len(requests) + 1
            /\ (pc # "probe" /\ NeverErrs /\ N <= 500000) => max_words = N

\* the probe of a corpus of exactly 500000 words ended after five requests
C2_Witness ==
    /\ pc = "fetch"
    /\ source[CurLang.code].n = 500000
    /\ Len(requests) = 5
    /\ \A k \in DOMAIN requests : ~requests[k].raised
    /\ max_words = 500000

ErrorsOf(name) == {i \in DOMAIN errors : errors[i].language = name}

\* C3: the languages are exported once each, in the order English, Spanish,
\* Portuguese; a language whose export met a failure of the corpus library
\* counts 0 and the languages after it are still exported; the total is the
\* sum of the counts returned.
C3_EveryLanguageOnce ==
    /\ Len(word_counts) = lang - 1
    /\ \A k \in DOMAIN word_counts :
           /\ k <= 3
           /\ word_counts[k].language = <<"English", "Spanish", "Portuguese">>[k]
    /\ LET Count(wc) == wc.count IN total_words = SumSeq(MapSeq(word_counts, Count))
    /\ \A i \in DOMAIN errors :
           /\ Cardinality(ErrorsOf(errors[i].language)) = 1
           /\ \E k \in DOMAIN word_counts :
                  word_counts[k] = [language |-> errors[i].language, count |-> 0]
    /\ pc \in {"done", "crashed"} => Len(word_counts) = 3

\* the export of English met a failure of the corpus library, and Spanish and
\* Portuguese were exported with their words
C3_Witness ==
    /\ pc = "done"
    /\ errors = << [language |-> "English", kind |-> "source"] >>
    /\ word_counts[1].count = 0
    /\ word_counts[2].count > 0
    /\ word_counts[3].count > 0
    /\ total_words = word_counts[2].count + word_counts[3].count

\* C4, as claimed: a filesystem error during the export of a language is not
\* handled for that language; it ends the run, and no later language is
\* exported.
C4_FilesystemErrorEndsRun ==
    \A i \in DOMAIN errors :
        errors[i].kind = "filesystem" =>
            /\ pc = "crashed"
            /\ lang \in DOMAIN Languages
            /\ Languages[lang].name = errors[i].language

\* C4, amended: a filesystem error during the export of a language is caught
\* by the export function like any other exception: the language counts 0 and
\* the languages after it are still exported; the run can end with an uncaught
\* failure only in the summary, after the three exports.
C4_FilesystemErrorCaught ==
    /\ \A i \in DOMAIN errors :
           errors[i].kind = "filesystem" =>
               \E k \in DOMAIN word_counts :
                   /\ word_counts[k] = [language |-> errors[i].language, count |-> 0]
                   /\ lang > k
    /\ pc = "crashed" => lang = 4 /\ Len(word_counts) = 3
    /\ pc = "done" => Len(word_counts) = 3

\* creating the directory or writing failed for English, and Portuguese was
\* exported after it
C4_Witness ==
    /\ pc = "done"
    /\ \E i \in DOMAIN errors : errors[i] = [language |-> "English", kind |-> "filesystem"]
    /\ word_counts[1].count = 0
    /\ word_counts[3].count > 0

TierFiles ==
    {TierFile(Languages[k].name, TierNames[j]) : k \in DOMAIN Languages, j \in DOMAIN TierNames}

NoDuplicateWord(entries) ==
    \A i, j \in DOMAIN entries : entries[i].word = entries[j].word => i = j

\* C5: in every tier file written from a list without a duplicate word,
\* lookup[e.word] is the frequency, rank and user_frequency of e for every
\* element e of words; lookup has no other key, and as many keys as
\* tier_info.word_count.
C5_LookupRoundTrip ==
    \A path \in TierFiles \cap DOMAIN files :
        LET f == files[path]
        IN  NoDuplicateWord(f.words) =>
              /\ \A i \in DOMAIN f.words :
                     /\ f.words[i].word \in DictKeys(f.lookup)
                     /\ DictGet(f.lookup, f.words[i].word) =
                            [ frequency      |-> f.words[i].frequency,
                              rank           |-> f.words[i].rank,
                              user_frequency |-> f.words[i].user_frequency ]
              /\ DictKeys(f.lookup) = {f.words[i].word : i \in DOMAIN f.words}
              /\ DictLen(f.lookup) = f.tier_info.word_count

\* the core file of a list of MaxWords different words is written
C5_Witness ==
    /\ TierFile("English", "core") \in DOMAIN files
    /\ LET f == files[TierFile("English", "core")]
       IN  /\ Len(f.words) = MaxWords
           /\ NoDuplicateWord(f.words)

CountOf(scores, v) == Cardinality({r \in DOMAIN scores : scores[r] = v})

RankAllApplied == call.kind = "total" /\ call.fn = "convert_to_user_scale_by_rank"

\* C6: for every total T that is a positive multiple of 32, exactly T/32 of the
\* ranks 1..T score 5, exactly 2T/32 score 4, exactly 4T/32 score 3, exactly
\* 8T/32 score 2, and all the other ranks score 1.
C6_GeometricSplit ==
    (RankAllApplied /\ call.args[1] % 32 = 0) =>
        LET T == call.args[1]
        IN  /\ CountOf(call.ret, 5) = T \div 32
            /\ CountOf(call.ret, 4) = 2 * (T \div 32)
            /\ CountOf(call.ret, 3) = 4 * (T \div 32)
            /\ CountOf(call.ret, 2) = 8 * (T \div 32)
            /\ CountOf(call.ret, 1) = T - 15 * (T \div 32)

DetailedValues == {10, 15, 20, 25, 30, 40, 50, 60, 70, 80, 90, 100}

\* C7: the flat and the detailed scale are non-decreasing in the raw frequency
\* and take their values in {1..5} and {1.0, 1.5, 2.0, 2.5, 3.0, 4.0, .. 10.0};
\* the rank scale is non-increasing in the rank, takes its values in {1..5},
\* and rank 1 scores 5.
C7_ScalesMonotone ==
    /\ (call.kind = "freq" /\ call.fn = "convert_frequency_to_scale") =>
           /\ call.ret[1] <= call.ret[2]
           /\ call.ret[1] \in 1..5 /\ call.ret[2] \in 1..5
    /\ (call.kind = "freq" /\ call.fn = "convert_frequency_to_detailed_scale") =>
           /\ call.ret[1] <= call.ret[2]
           /\ call.ret[1] \in DetailedValues /\ call.ret[2] \in DetailedValues
    /\ (call.kind = "rank" /\ call.fn = "convert_to_user_scale_by_rank") =>
           /\ call.ret[1] >= call.ret[2]
           /\ call.ret[1] \in 1..5 /\ call.ret[2] \in 1..5
           /\ call.args[1] = 1 => call.ret[1] = 5
    /\ RankAllApplied =>
           /\ call.ret[1] = 5
           /\ \A r \in DOMAIN call.ret : call.ret[r] \in 1..5
           /\ \A r \in DOMAIN call.ret : r > 1 => call.ret[r - 1] >= call.ret[r]

\* the detailed scale is applied to 4.9e-7 and 5e-7, on the two sides of a step
C7_Witness ==
    /\ call.kind = "freq"
    /\ call.fn = "convert_frequency_to_detailed_scale"
    /\ call.args = <<Lit(5, -7) - 1, Lit(5, -7)>>
    /\ call.ret = <<15, 20>>

FlatApplied == call.kind = "freq" /\ call.fn = "convert_frequency_to_scale"

FlatBoundaries == <<Lit(1, -6), Lit(1, -5), Lit(1, -4), Lit(1, -3)>>

\* C8, as claimed: a raw frequency equal to a threshold of the flat scale maps
\* to the lower bucket: 1e-6 to 1, 1e-5 to 2, 1e-4 to 3, 1e-3 to 4.
C8_BoundaryInLowerBucket ==
    FlatApplied =>
        \A k \in DOMAIN call.args : \A b \in DOMAIN FlatBoundaries :
            call.args[k] = FlatBoundaries[b] => call.ret[k] = b

\* C8, amended: a raw frequency equal to a threshold of the flat scale maps to
\* the upper bucket, as the values just above it do and the values just below
\* it do not: 1e-6 maps to 2, 1e-5 to 3, 1e-4 to 4, 1e-3 to 5.
C8_BoundaryInUpperBucket ==
    FlatApplied =>
        \A b \in DOMAIN FlatBoundaries :
            /\ \A k \in DOMAIN call.args :
                   call.args[k] = FlatBoundaries[b] => call.ret[k] = b + 1
            /\ call.args = <<FlatBoundaries[b], FlatBoundaries[b] + 1>>
                   => call.ret[1] = call.ret[2]
            /\ call.args = <<FlatBoundaries[b] - 1, FlatBoundaries[b]>>
                   => call.ret[1] + 1 = call.ret[2]

\* the flat scale is applied to just below 1e-6 and to 1e-6
C8_Witness ==
    /\ FlatApplied
    /\ call.args = <<Lit(1, -6) - 1, Lit(1, -6)>>
    /\ call.ret = <<1, 2>>

\* the languages of five different words: their raw frequencies in rank order
\* are 0.02, 0.003, 0.00005, 0.0000005, 0 (FreqTable)
FiveWordLanguages ==
    {k \in DOMAIN Languages :
        source[Languages[k].code].n = 5 /\ ~source[Languages[k].code].dup}

FlatScalesWritten(k) ==
    LET Scale(item) == item[2] IN MapSeq(files[FlatFile(Languages[k].name)], Scale)

DetailedWritten(k) ==
    LET Frequency(entry) == entry.frequency
    IN  MapSeq(files[TierFile(Languages[k].name, "core")].words, Frequency)

\* C9, as claimed: for a language of 5 words of raw frequencies 0.02, 0.003,
\* 0.00005, 0.0000005, 0, the flat exporter writes the scales 5,4,3,2,1 and the
\* tiered exporter the detailed frequencies 10.0, 8.0, 4.0, 1.5, 1.0.
C9_ExampleAsClaimed ==
    \A k \in FiveWordLanguages :
        /\ FlatFile(Languages[k].name) \in DOMAIN files
               => FlatScalesWritten(k) = <<5, 4, 3, 2, 1>>
        /\ TierFile(Languages[k].name, "core") \in DOMAIN files
               => DetailedWritten(k) = <<100, 80, 40, 15, 10>>

\* C9, amended: for that language the flat exporter writes the scales
\* 5,5,3,1,1 and the tiered exporter the detailed frequencies
\* 10.0, 8.0, 5.0, 2.0, 1.0.
C9_ExampleAsComputed ==
    \A k \in FiveWordLanguages :
        /\ FlatFile(Languages[k].name) \in DOMAIN files
               => FlatScalesWritten(k) = <<5, 5, 3, 1, 1>>
        /\ TierFile(Languages[k].name, "core") \in DOMAIN files
               => DetailedWritten(k) = <<100, 80, 50, 20, 10>>

\* the core file of a five-word Spanish is written
C9_Witness ==
    /\ 2 \in FiveWordLanguages
    /\ TierFile("Spanish", "core") \in DOMAIN files
    /\ Len(files[TierFile("Spanish", "core")].words) = 5

\* the files a complete call of export_tiered_language_data writes, in order:
\* those of the non-empty tiers, core, extended, complete, then the metadata
ExpectedWrites(name, ts) ==
    (IF ts.core # <<>> THEN <<TierFile(name, "core")>> ELSE <<>>)
        \o (IF ts.extended # <<>> THEN <<TierFile(name, "extended")>> ELSE <<>>)
        \o (IF ts.complete # <<>> THEN <<TierFile(name, "complete")>> ELSE <<>>)
        \o <<MetadataFile(name)>>

\* C10: in export_tiered_language_data no file is written before every word is
\* processed; the files of the non-empty tiers are written in the order core,
\* extended, complete and the metadata file last; a call that returns without
\* an exception has written all of them, and a call that ends in the except
\* handler has not written the metadata file.
C10_WriteOrder ==
    /\ [](exporter = "tiered" =>
            /\ pc \in {"probe", "fetch", "process", "mkdir"} => written = <<>>
            /\ pc \in {"write_tier", "write_meta"} =>
                   /\ Len(written) < Len(ExpectedWrites(CurLang.name, tiers))
                   /\ written = SubSeq(ExpectedWrites(CurLang.name, tiers), 1, Len(written))
                   /\ pc = "write_meta" =>
                          Len(written) + 1 = Len(ExpectedWrites(CurLang.name, tiers)))
    /\ [][(exporter = "tiered" /\ InCall /\ pc' = "main") =>
            /\ errors' = errors =>
                   /\ written' = ExpectedWrites(CurLang.name, tiers)
                   /\ word_counts'[lang].count = Len(words)
            /\ errors' # errors =>
                   /\ MetadataFile(CurLang.name) \notin Range(written')
                   /\ word_counts'[lang].count = 0]_vars

\* a call for 15001 words returned after writing the core file, the extended
\* file and the metadata file: the complete tier is empty
C10_Witness ==
    /\ exporter = "tiered"
    /\ pc = "main"
    /\ lang = 2
    /\ word_counts[1].count = 15001
    /\ written = << TierFile("English", "core"), TierFile("English", "extended"),
                    MetadataFile("English") >>

====
